---- MODULE Spec2Model ----
(***************************************************************************)
(* Model of reolink.interval.c_interval.c__motions2intervals_idx: one      *)
(* forward scan over a list of per-frame motion flags that collects the    *)
(* runs of true samples closed by a false sample as (start, end) pairs.    *)
(*                                                                         *)
(* Python indices are 0-based and kept 0-based in the model; At(m, k)      *)
(* reads m[k] of the Python list from the 1-based TLA+ sequence.           *)
(* The C ints of the function (x_idx, i, motion_list_size) stay far below  *)
(* 2^31 for the list lengths explored, so they are plain integers here.    *)
(***************************************************************************)
EXTENDS Integers, Sequences, FiniteSets

\* Longest motions list explored.
MaxLen == 6

\* All boolean sequences of length 0..MaxLen: the arguments of a call.
Inputs == UNION {[1..n -> BOOLEAN] : n \in 0..MaxLen}

VARIABLES
    motions,           \* the argument list (owned by the caller)
    motion_intervals,  \* cdef list motion_intervals
    motion_idx,        \* cdef (int, int) motion_idx
    x_idx,             \* cdef int x_idx: start of the open run, or NoRunOpen
    x,                 \* cdef bint x: the sample read in this iteration
    motion_list_size,  \* cdef int motion_list_size
    i,                 \* cdef int i: the scan index
    pc,                \* "loop": at the while test;  "done": returned
    other              \* the argument and locals of a second invocation that
                       \* is not running at the moment, or NoOther

vars == <<motions, motion_intervals, motion_idx, x_idx, x, motion_list_size, i, pc, other>>

\* The marker meaning "looking for the start of an interval" (line 4, 12, 23).
NoRunOpen == -1

\* motions[k] with the 0-based index of the source.
At(m, k) == m[k + 1]

\* Lines 1-7: the argument and the locals of one invocation, as they are on
\* entry for the argument m.  All of them are declared inside the function.
EntryFrame(m) ==
    [motions |-> m, motion_intervals |-> <<>>, motion_idx |-> <<0, 0>>,
     x_idx |-> NoRunOpen, x |-> FALSE, motion_list_size |-> Len(m), i |-> 0,
     pc |-> "loop"]

\* No second invocation exists.
NoOther ==
    [motions |-> <<>>, motion_intervals |-> <<>>, motion_idx |-> <<0, 0>>,
     x_idx |-> NoRunOpen, x |-> FALSE, motion_list_size |-> 0, i |-> 0,
     pc |-> "none"]

\* Lines 1-7: the argument and the locals of the running invocation.
Frame ==
    [motions |-> motions, motion_intervals |-> motion_intervals,
     motion_idx |-> motion_idx, x_idx |-> x_idx, x |-> x,
     motion_list_size |-> motion_list_size, i |-> i, pc |-> pc]

TypeOK ==
    /\ other.pc \in {"loop", "done", "none"}
    /\ other.motions \in Inputs
    /\ motions \in Inputs
    /\ motion_intervals \in Seq(Int \X Int)
    /\ motion_idx \in Int \X Int
    /\ x_idx \in Int
    /\ x \in BOOLEAN
    /\ motion_list_size \in 0..MaxLen
    /\ i \in 0..MaxLen
    /\ pc \in {"loop", "done"}

\* Lines 2-7: the declarations executed on entry, for the argument m.
Init ==
    \E m \in Inputs :
        /\ motions = m
        /\ motion_intervals = <<>>
        /\ motion_idx = <<0, 0>>
        /\ x_idx = NoRunOpen
        /\ x = FALSE
        /\ motion_list_size = Len(m)
        /\ i = 0
        /\ pc = "loop"
        /\ other = NoOther

\* Mutant: the result list outlives the call (created once, not on line 2).
CallKeepList(m) ==
    /\ pc = "done"
    /\ motions' = m
    /\ motion_idx' = <<0, 0>>
    /\ x_idx' = NoRunOpen
    /\ x' = FALSE
    /\ motion_list_size' = Len(m)
    /\ i' = 0
    /\ pc' = "loop"
    /\ UNCHANGED <<motion_intervals, other>>

\* A further call of the function, after the previous one returned:
\* lines 1-7 run again with fresh locals.
Call(m) ==
    /\ pc = "done"
    /\ motions' = m
    /\ motion_intervals' = <<>>
    /\ motion_idx' = <<0, 0>>
    /\ x_idx' = NoRunOpen
    /\ x' = FALSE
    /\ motion_list_size' = Len(m)
    /\ i' = 0
    /\ pc' = "loop"
    /\ UNCHANGED other

\* Mutant: a sample that opens a run is cleared in the list.
LookForStartConsume ==
    /\ pc = "loop"
    /\ i < motion_list_size
    /\ x_idx = NoRunOpen
    /\ x' = At(motions, i)
    /\ x_idx' = IF x' THEN i ELSE x_idx
    /\ motions' = IF x' THEN [motions EXCEPT ![i + 1] = FALSE] ELSE motions
    /\ i' = i + 1
    /\ UNCHANGED <<motion_intervals, motion_idx, motion_list_size, pc, other>>

\* Mutant: the marker is set after the index was advanced.
LookForStartLate ==
    /\ pc = "loop"
    /\ i < motion_list_size
    /\ x_idx = NoRunOpen
    /\ x' = At(motions, i)
    /\ i' = i + 1
    /\ x_idx' = IF x' THEN i' ELSE x_idx
    /\ UNCHANGED <<motions, motion_intervals, motion_idx, motion_list_size, pc, other>>

\* Mutant: the test of line 13 inverted (opens a run on a false sample).
LookForStartInverted ==
    /\ pc = "loop"
    /\ i < motion_list_size
    /\ x_idx = NoRunOpen
    /\ x' = At(motions, i)
    /\ x_idx' = IF ~x' THEN i ELSE x_idx
    /\ i' = i + 1
    /\ UNCHANGED <<motions, motion_intervals, motion_idx, motion_list_size, pc, other>>

\* Mutant: the test of line 13 missing (opens a run on every sample).
LookForStartAlways ==
    /\ pc = "loop"
    /\ i < motion_list_size
    /\ x_idx = NoRunOpen
    /\ x' = At(motions, i)
    /\ x_idx' = i
    /\ i' = i + 1
    /\ UNCHANGED <<motions, motion_intervals, motion_idx, motion_list_size, pc, other>>

\* Lines 10-16: one iteration while no run is open.
LookForStart ==
    /\ pc = "loop"
    /\ i < motion_list_size
    /\ x_idx = NoRunOpen
    /\ x' = At(motions, i)
    /\ x_idx' = IF x' THEN i ELSE x_idx
    /\ i' = i + 1
    /\ UNCHANGED <<motions, motion_intervals, motion_idx, motion_list_size, pc, other>>

\* Mutant: every true sample restarts the open run.
ContinueRunRestart ==
    /\ pc = "loop"
    /\ i < motion_list_size
    /\ x_idx # NoRunOpen
    /\ At(motions, i)
    /\ x' = At(motions, i)
    /\ x_idx' = i
    /\ i' = i + 1
    /\ UNCHANGED <<motions, motion_intervals, motion_idx, motion_list_size, pc, other>>

\* Mutant: the i += 1 of line 18 missing.
ContinueRunStall ==
    /\ pc = "loop"
    /\ i < motion_list_size
    /\ x_idx # NoRunOpen
    /\ At(motions, i)
    /\ x' = At(motions, i)
    /\ UNCHANGED <<motions, motion_intervals, motion_idx, x_idx, motion_list_size, i, pc,
                   other>>

\* Lines 10-11, 17-19: one iteration on a true sample while a run is open.
ContinueRun ==
    /\ pc = "loop"
    /\ i < motion_list_size
    /\ x_idx # NoRunOpen
    /\ At(motions, i)
    /\ x' = At(motions, i)
    /\ i' = i + 1
    /\ UNCHANGED <<motions, motion_intervals, motion_idx, x_idx, motion_list_size, pc, other>>

\* Lines 10-11, 20-25 with the appended pair and the value the marker is
\* left at as parameters: the shape shared by CloseInterval and its mutants.
CloseWith(pair, marker) ==
    /\ pc = "loop"
    /\ i < motion_list_size
    /\ x_idx # NoRunOpen
    /\ ~At(motions, i)
    /\ x' = At(motions, i)
    /\ motion_idx' = pair
    /\ motion_intervals' = Append(motion_intervals, pair)
    /\ x_idx' = marker
    /\ i' = i + 1
    /\ UNCHANGED <<motions, motion_list_size, pc, other>>

\* Mutant: the pair built the wrong way round.
CloseIntervalSwapped == CloseWith(<<i, x_idx>>, NoRunOpen)

\* Mutant: the run closed one sample early (inclusive last index).
CloseIntervalEarly == CloseWith(<<x_idx, i - 1>>, NoRunOpen)

\* Mutant: the run closed one sample late.
CloseIntervalLate == CloseWith(<<x_idx, i + 1>>, NoRunOpen)

\* Mutant: line 23 missing, the marker is not cleared.
CloseIntervalKeepOpen == CloseWith(<<x_idx, i>>, x_idx)

\* Mutant: a new run is opened at the closing sample.
CloseIntervalReopen == CloseWith(<<x_idx, i>>, i)

\* Mutant: the result list is replaced by the new pair instead of extended.
CloseIntervalReplace ==
    /\ pc = "loop"
    /\ i < motion_list_size
    /\ x_idx # NoRunOpen
    /\ ~At(motions, i)
    /\ x' = At(motions, i)
    /\ motion_idx' = <<x_idx, i>>
    /\ motion_intervals' = << <<x_idx, i>> >>
    /\ x_idx' = NoRunOpen
    /\ i' = i + 1
    /\ UNCHANGED <<motions, motion_list_size, pc, other>>

\* Mutant: a run of a single sample is closed without being appended.
CloseIntervalSkipShort ==
    /\ pc = "loop"
    /\ i < motion_list_size
    /\ x_idx # NoRunOpen
    /\ ~At(motions, i)
    /\ x' = At(motions, i)
    /\ motion_idx' = <<x_idx, i>>
    /\ motion_intervals' = IF i - x_idx > 1
                              THEN Append(motion_intervals, <<x_idx, i>>)
                              ELSE motion_intervals
    /\ x_idx' = NoRunOpen
    /\ i' = i + 1
    /\ UNCHANGED <<motions, motion_list_size, pc, other>>

\* Lines 10-11, 20-25: one iteration on a false sample while a run is open.
CloseInterval == CloseWith(<<x_idx, i>>, NoRunOpen)

\* Mutant: a run still open at the end of the scan is closed as (start, N).
ReturnClosing ==
    /\ pc = "loop"
    /\ ~(i < motion_list_size)
    /\ pc' = "done"
    /\ motion_intervals' = IF x_idx # NoRunOpen
                              THEN Append(motion_intervals, <<x_idx, i>>)
                              ELSE motion_intervals
    /\ UNCHANGED <<motions, motion_idx, x_idx, x, motion_list_size, i, other>>

\* Lines 10, 27: the while test fails and motion_intervals is returned.
Return ==
    /\ pc = "loop"
    /\ ~(i < motion_list_size)
    /\ pc' = "done"
    /\ UNCHANGED <<motions, motion_intervals, motion_idx, x_idx, x, motion_list_size, i, other>>

\* The steps of one call.
ScanStep ==
    \/ LookForStart
    \/ ContinueRun
    \/ CloseInterval
    \/ Return

Next ==
    \/ LookForStart
    \/ ContinueRun
    \/ CloseInterval
    \/ Return
    \/ \E m \in Inputs : Call(m)

Spec == Init /\ [][Next]_vars

\* A call that has started runs to its return: the function has no
\* suspension point.  Nothing obliges the caller to call again.
FairSpec == Spec /\ WF_vars(ScanStep)

\* Lines 10-27 run without interruption from index k with the marker and
\* the result list given: the list the loop returns.
RECURSIVE ScanFrom(_, _, _, _)
ScanFrom(m, k, marker, acc) ==
    IF ~(k < Len(m)) THEN acc
    ELSE IF marker = NoRunOpen
        THEN ScanFrom(m, k + 1, IF At(m, k) THEN k ELSE marker, acc)
    ELSE IF At(m, k)
        THEN ScanFrom(m, k + 1, marker, acc)
    ELSE ScanFrom(m, k + 1, NoRunOpen, Append(acc, <<marker, k>>))

\* Lines 1-27: the list one call on m returns when it runs alone.
c__motions2intervals_idx(m) == ScanFrom(m, 0, NoRunOpen, <<>>)

----------------------------------------------------------------------------
\* Two invocations.  One runs at a time; the other one's argument and locals
\* are set aside in other, and the two change places at any point.

\* Longest motions list explored with two invocations.
MaxLenPair == 4

PairInputs == UNION {[1..n -> BOOLEAN] : n \in 0..MaxLenPair}

\* Mutant: x_idx is declared outside the function, one marker for all
\* invocations.
SwitchSharedMarker ==
    /\ other.pc # "none"
    /\ other' = Frame
    /\ motions' = other.motions
    /\ motion_intervals' = other.motion_intervals
    /\ motion_idx' = other.motion_idx
    /\ x' = other.x
    /\ motion_list_size' = other.motion_list_size
    /\ i' = other.i
    /\ pc' = other.pc
    /\ UNCHANGED x_idx

\* The running invocation is set aside and the other one goes on where it
\* stopped.  Everything lines 1-7 declare belongs to the invocation.
Switch ==
    /\ other.pc # "none"
    /\ other' = Frame
    /\ motions' = other.motions
    /\ motion_intervals' = other.motion_intervals
    /\ motion_idx' = other.motion_idx
    /\ x_idx' = other.x_idx
    /\ x' = other.x
    /\ motion_list_size' = other.motion_list_size
    /\ i' = other.i
    /\ pc' = other.pc

\* Both invocations are at their entry, each with its own argument.
PairInit ==
    \E m1, m2 \in PairInputs :
        /\ motions = m1
        /\ motion_intervals = <<>>
        /\ motion_idx = <<0, 0>>
        /\ x_idx = NoRunOpen
        /\ x = FALSE
        /\ motion_list_size = Len(m1)
        /\ i = 0
        /\ pc = "loop"
        /\ other = EntryFrame(m2)

PairNext ==
    \/ LookForStart
    \/ ContinueRun
    \/ CloseInterval
    \/ Return
    \/ \E m \in PairInputs : Call(m)
    \/ Switch

PairSpec == PairInit /\ [][PairNext]_vars

----------------------------------------------------------------------------
\* Vocabulary of the properties.

\* The call has returned; motion_intervals is the returned list.
Returned == pc = "done"

N == Len(motions)

Start(k) == motion_intervals[k][1]
End(k) == motion_intervals[k][2]
Emitted == 1..Len(motion_intervals)

AllTrue == \A k \in 0..(N - 1) : At(motions, k)
AllFalse == \A k \in 0..(N - 1) : ~At(motions, k)

\* s is an initial part of t.
IsPrefix(s, t) == Len(s) <= Len(t) /\ \A k \in 1..Len(s) : s[k] = t[k]

\* Both invocations have returned.
BothReturned == pc = "done" /\ other.pc = "done"

----------------------------------------------------------------------------
\* C1: every returned interval (s, e) covers only true samples:
\* motions[k] is true for all k with s <= k < e.
C1_CoversOnlyTrue ==
    Returned =>
        \A j \in Emitted :
            \A k \in Start(j)..(End(j) - 1) : k \in 0..(N - 1) /\ At(motions, k)

\* C1 witness: a returned interval of at least two samples.
C1_Witness ==
    /\ Returned
    /\ \E j \in Emitted : End(j) - Start(j) >= 2

\* C2: a run still open when the scan reaches the end is never emitted:
\* when the last sample is true no returned interval covers index N-1
\* (none ends at N), and an all-true input of length >= 1 returns the
\* empty list.
C2_TrailingRunDropped ==
    Returned =>
        /\ (N >= 1 /\ At(motions, N - 1)) =>
               \A j \in Emitted : ~(Start(j) <= N - 1 /\ N - 1 < End(j))
        /\ (N >= 1 /\ AllTrue) => motion_intervals = <<>>

\* C2 witness: a call returned with a run open at the end, after an
\* earlier run was emitted.
C2_Witness ==
    /\ Returned
    /\ N >= 1
    /\ At(motions, N - 1)
    /\ x_idx # NoRunOpen
    /\ motion_intervals # <<>>

\* C3: every returned interval is a non-empty range inside the input:
\* 0 <= start < end <= N.
C3_IntervalInRange ==
    Returned =>
        \A j \in Emitted : 0 <= Start(j) /\ Start(j) < End(j) /\ End(j) <= N

\* C3 witness: a returned interval that starts at index 0 and another that
\* ends at the last index an interval can end at.
C3_Witness ==
    /\ Returned
    /\ \E j \in Emitted : Start(j) = 0
    /\ \E j \in Emitted : Start(j) > 0 /\ End(j) = N - 1

\* C4: every returned interval is left-maximal: start = 0 or
\* motions[start-1] is false.
C4_LeftMaximal ==
    Returned =>
        \A j \in Emitted :
            Start(j) = 0 \/ (Start(j) - 1 \in 0..(N - 1) /\ ~At(motions, Start(j) - 1))

\* C4 witness: a returned interval of a run of several samples that starts
\* after index 0.
C4_Witness ==
    /\ Returned
    /\ \E j \in Emitted : Start(j) > 0 /\ End(j) - Start(j) >= 2

\* C5: every returned interval is right-maximal: end = N or motions[end]
\* is false.
C5_RightMaximal ==
    Returned =>
        \A j \in Emitted :
            End(j) = N \/ (End(j) \in 0..(N - 1) /\ ~At(motions, End(j)))

\* C5 witness: a returned interval of a run of several samples, with
\* further samples after its end.
C5_Witness ==
    /\ Returned
    /\ \E j \in Emitted : End(j) - Start(j) >= 2 /\ End(j) < N - 1

\* C6: the returned intervals are pairwise non-overlapping and listed in
\* strictly increasing order of start: for output positions j < k,
\* start_j < start_k and end_j <= start_k.
C6_OrderedDisjoint ==
    Returned =>
        \A j, k \in Emitted :
            j < k => (Start(j) < Start(k) /\ End(j) <= Start(k))

\* C6 witness: a call returned three intervals.
C6_Witness ==
    /\ Returned
    /\ Len(motion_intervals) >= 3

\* C7: no two consecutive returned intervals could be merged: between
\* consecutive (s1, e1) and (s2, e2) there is an index k with
\* e1 <= k < s2 and motions[k] false.
C7_NotMergeable ==
    Returned =>
        \A j \in Emitted :
            (j + 1) \in Emitted =>
                \E k \in End(j)..(Start(j + 1) - 1) :
                    k \in 0..(N - 1) /\ ~At(motions, k)

\* C7 witness: two consecutive returned intervals separated by exactly one
\* false sample.
C7_Witness ==
    /\ Returned
    /\ \E j \in Emitted : (j + 1) \in Emitted /\ Start(j + 1) = End(j) + 1

\* C8: the empty input and every all-false input return the empty list.
C8_NoMotionNoInterval ==
    (Returned /\ AllFalse) => motion_intervals = <<>>

\* C8 witness: a call on an all-false input of several samples returned.
C8_Witness ==
    /\ Returned
    /\ AllFalse
    /\ N >= 2

\* C9: the scan is total and terminates: every iteration reads the sample
\* at the scan index, which is inside the list, and advances the index by
\* exactly one, leaving the list alone; the loop is left only with the
\* index equal to the length N; and every call that has started returns.
C9_ScanTerminates ==
    /\ [][ /\ (pc = "loop" /\ pc' = "loop") =>
                 /\ 0 <= i /\ i < N
                 /\ x' = At(motions, i)
                 /\ i' = i + 1
                 /\ motions' = motions
           /\ (pc = "loop" /\ pc' = "done") =>
                 /\ i = N
                 /\ i' = i
                 /\ motions' = motions ]_vars
    /\ [](pc = "loop" => <>(pc = "done" /\ i = N))

\* C9 witness: a call on a list of several samples with both values
\* returned after the index reached the length.
C9_Witness ==
    /\ Returned
    /\ i = N
    /\ N >= 3
    /\ ~AllTrue
    /\ ~AllFalse

\* C10: the scenario table: [] -> []; [F,F] -> []; [T,T,T] -> [];
\* [F,T,T,F] -> [(1,3)]; [T,F,T,F,T,T] -> [(0,1),(2,3)];
\* [F,T,F,T,F] -> [(1,2),(3,4)].
C10_Scenarios ==
    Returned =>
        /\ motions = <<>> => motion_intervals = <<>>
        /\ motions = <<FALSE, FALSE>> => motion_intervals = <<>>
        /\ motions = <<TRUE, TRUE, TRUE>> => motion_intervals = <<>>
        /\ motions = <<FALSE, TRUE, TRUE, FALSE>> =>
               motion_intervals = << <<1, 3>> >>
        /\ motions = <<TRUE, FALSE, TRUE, FALSE, TRUE, TRUE>> =>
               motion_intervals = << <<0, 1>>, <<2, 3>> >>
        /\ motions = <<FALSE, TRUE, FALSE, TRUE, FALSE>> =>
               motion_intervals = << <<1, 2>>, <<3, 4>> >>

\* C10 witness: the call on the longest scenario returned.
C10_Witness ==
    /\ Returned
    /\ motions = <<TRUE, FALSE, TRUE, FALSE, TRUE, TRUE>>
    /\ Len(motion_intervals) = 2

----------------------------------------------------------------------------
\* C11: extraction is deterministic and carries no state between calls:
\* two returned calls on the same input, whatever calls came before them,
\* hold identical lists, and every call starts with the empty result list
\* and the no-run-open marker.
C11_Deterministic ==
    /\ (BothReturned /\ motions = other.motions) =>
           motion_intervals = other.motion_intervals
    /\ (pc = "loop" /\ i = 0) =>
           (motion_intervals = <<>> /\ x_idx = NoRunOpen)

\* C11 witness: two calls on the same input returned the same two
\* intervals.
C11_Witness ==
    /\ BothReturned
    /\ motions = other.motions
    /\ Len(motion_intervals) = 2
    /\ Len(other.motion_intervals) = 2

\* C12 as stated: during the scan and at return the motions list is
\* unchanged and nothing is modified but the scan index, the open-run
\* marker and the result list.  Line 11 assigns x and line 21 assigns
\* motion_idx, so this fails.
C12_OnlyIndexMarkerResult ==
    [][pc = "loop" =>
          UNCHANGED <<motions, motion_list_size, x, motion_idx, other>>]_vars

\* C12 amended: during the scan and at return the motions list is unchanged
\* (same length, same values); what a step modifies is local to the call:
\* the scan index, the open-run marker, the result list, the sample
\* variable x and the pair variable motion_idx.
C12_InputNeverWritten ==
    [][pc = "loop" => UNCHANGED <<motions, motion_list_size, other>>]_vars

\* C12 witness: a call returned after its steps changed every local the
\* loop assigns.
C12_Witness ==
    /\ Returned
    /\ i = N
    /\ x
    /\ x_idx # NoRunOpen
    /\ motion_idx # <<0, 0>>
    /\ Len(motion_intervals) >= 2

\* C13: two invocations whose steps are interleaved in any way do not
\* interfere: each returns exactly the list it returns when run alone.
C13_NoInterference ==
    /\ pc = "done" => motion_intervals = c__motions2intervals_idx(motions)
    /\ other.pc = "done" =>
           other.motion_intervals = c__motions2intervals_idx(other.motions)

\* C13 witness: one invocation returned intervals while the other, on a
\* different input, is set aside in the middle of its scan with a run open
\* and an interval already appended.
C13_Witness ==
    /\ pc = "done"
    /\ motion_intervals # <<>>
    /\ other.pc = "loop"
    /\ other.i < other.motion_list_size
    /\ other.x_idx # NoRunOpen
    /\ other.motion_intervals # <<>>
    /\ other.motions # motions

\* C14: the output is complete for closed runs: it lists, in increasing
\* order and each exactly once, all maximal runs of true samples that are
\* followed by a false sample, as (first index of the run, index of the
\* false sample); the number of returned intervals is the number of
\* indices k >= 1 with motions[k-1] true and motions[k] false.
C14_CompleteForClosedRuns ==
    LET ClosedRuns ==
            {r \in (0..N) \X (0..N) :
                /\ r[1] < r[2]
                /\ r[2] < N
                /\ \A k \in r[1]..(r[2] - 1) : At(motions, k)
                /\ r[1] = 0 \/ ~At(motions, r[1] - 1)
                /\ ~At(motions, r[2])}
        FallingEdges ==
            {k \in 1..(N - 1) : At(motions, k - 1) /\ ~At(motions, k)}
    IN  Returned =>
            /\ {motion_intervals[j] : j \in Emitted} = ClosedRuns
            /\ \A j, k \in Emitted : j < k => Start(j) < Start(k)
            /\ Len(motion_intervals) = Cardinality(FallingEdges)

\* C14 witness: a call returned a run of one sample and a run of several
\* samples, and dropped a trailing run.
C14_Witness ==
    /\ Returned
    /\ \E j \in Emitted : End(j) - Start(j) = 1
    /\ \E j \in Emitted : End(j) - Start(j) >= 2
    /\ N >= 1
    /\ At(motions, N - 1)

\* C15: the scan follows the two-state machine: it starts with no run open
\* (marker = -1); after a sample was inspected a run is open exactly when
\* that sample is true; while a run is open the marker is the smallest
\* index j such that the samples from j to the last inspected one are all
\* true; and a step appends an interval exactly when it goes from run open
\* to no run open on a false sample.
C15_TwoStateMachine ==
    /\ []( /\ i = 0 => x_idx = NoRunOpen
           /\ i > 0 => ((x_idx # NoRunOpen) <=> At(motions, i - 1))
           /\ x_idx # NoRunOpen =>
                 /\ 0 <= x_idx /\ x_idx <= i - 1
                 /\ \A k \in x_idx..(i - 1) : At(motions, k)
                 /\ x_idx = 0 \/ ~At(motions, x_idx - 1) )
    /\ [][ pc = "loop" =>
             /\ (motion_intervals' # motion_intervals) <=>
                    (x_idx # NoRunOpen /\ pc' = "loop" /\ ~At(motions, i)
                        /\ x_idx' = NoRunOpen)
             /\ (motion_intervals' # motion_intervals) =>
                    motion_intervals' = Append(motion_intervals, <<x_idx, i>>)
             /\ (x_idx = NoRunOpen /\ x_idx' # NoRunOpen) =>
                    (At(motions, i) /\ x_idx' = i) ]_vars

\* C15 witness: in the middle of a scan a run of several samples is open,
\* not from index 0, after an earlier run was closed.
C15_Witness ==
    /\ pc = "loop"
    /\ i < N
    /\ x_idx > 0
    /\ i - x_idx >= 2
    /\ motion_intervals # <<>>

\* C16: appending one false sample recovers the dropped trailing run: for
\* an input m of length n, the output for m followed by a single false is
\* the complete increasing list of all maximal runs of true in m, a
\* trailing run included as (start, n), and it begins with the output
\* for m.
C16_SentinelRecoversTrailingRun ==
    LET m == other.motions
        n == Len(m)
        AllRuns ==
            {r \in (0..n) \X (0..n) :
                /\ r[1] < r[2]
                /\ \A k \in r[1]..(r[2] - 1) : At(m, k)
                /\ r[1] = 0 \/ ~At(m, r[1] - 1)
                /\ r[2] = n \/ ~At(m, r[2])}
    IN  (BothReturned /\ motions = Append(m, FALSE)) =>
            /\ {motion_intervals[j] : j \in Emitted} = AllRuns
            /\ \A j, k \in Emitted : j < k => Start(j) < Start(k)
            /\ IsPrefix(other.motion_intervals, motion_intervals)

\* C16 witness: a call on an input that ends in an open run returned an
\* earlier interval only, and the call on the same input followed by a
\* false returned the trailing run as well.
C16_Witness ==
    /\ BothReturned
    /\ motions = Append(other.motions, FALSE)
    /\ other.motion_intervals # <<>>
    /\ Len(motion_intervals) = Len(other.motion_intervals) + 1
    /\ End(Len(motion_intervals)) = Len(other.motions)

\* C17: the result list is append-only during the scan and depends only on
\* the samples already inspected: a step of the scan leaves every interval
\* already in the list in place, so for every input and every prefix of it
\* the output for the prefix is a prefix of the output for the input.
C17_AppendOnlyPrefix ==
    /\ []((BothReturned /\ IsPrefix(other.motions, motions)) =>
             IsPrefix(other.motion_intervals, motion_intervals))
    /\ [][(pc = "loop" /\ other' = other) =>
             IsPrefix(motion_intervals, motion_intervals')]_vars

\* C17 witness: the call on a proper prefix returned one interval and the
\* call on the whole input returned that interval and a further one.
C17_Witness ==
    /\ BothReturned
    /\ IsPrefix(other.motions, motions)
    /\ Len(other.motions) < Len(motions)
    /\ Len(other.motion_intervals) = 1
    /\ Len(motion_intervals) = 2

\* C18: no returned interval ends at N: every returned (start, end) has
\* end <= N-1 and motions[end] false, since an interval is closed only at
\* the index of an inspected false sample.
C18_EndIsInspectedFalse ==
    Returned =>
        \A j \in Emitted : End(j) <= N - 1 /\ End(j) >= 0 /\ ~At(motions, End(j))

\* C18 witness: a returned interval closed by the last sample of the input.
C18_Witness ==
    /\ Returned
    /\ motion_intervals # <<>>
    /\ End(Len(motion_intervals)) = N - 1
    /\ x_idx = NoRunOpen

====
